---------------------------- MODULE Spec2Model ----------------------------
(***************************************************************************)
(* A model of the pipeline library of src/lib/processing.h: the lazy views *)
(* Split and Filter (with Transform between them, as in src/bin/main.cpp), *)
(* and the eager adapters Join, AggregateByKey and SplitExpected.          *)
(*                                                                         *)
(* Strings are sequences of one-character strings.  Offsets into a string  *)
(* are 0-based as in the C++ code; std::string::npos is Npos.              *)
(*                                                                         *)
(* Each adapter family has its own variables and its own specification;    *)
(* a specification keeps the other families' variables at their initial    *)
(* values.                                                                 *)
(***************************************************************************)
EXTENDS Integers, Sequences, FiniteSets, TLC

VARIABLES
    \* ---- Split / Transform / Filter traversal (Spec) ----
    chunks,      \* the upstream std::vector<std::string> of Split
    delimiters_, \* SplitFlow::delimiters_, as a set of characters
    mode,        \* which pipeline is traversed
    predKind,    \* which predicate the Filter stage holds
    cursor,      \* the cursors built so far: "begin" and "end" of the range-for
    self,        \* the cursor skip_unmatched is running on
    ret,         \* where skip_unmatched returns to
    pc,          \* position of the traversal loop
    out,         \* the elements the traversal has yielded, in order
    \* ---- Join (JoinSpec) ----
    jform,       \* "kv": SimpleJoinAdapter, "selector": JoinAdapter
    mmOrder,     \* where the library's unordered_multimap puts an equal key
    left,        \* the elements of the caller's left flow
    left0,       \* the left elements as they were before the join ran
    right,       \* the elements of the right flow, right_
    right_map,   \* the unordered_multimap: key -> mapped values, in the
                 \* order equal_range walks them
    range,       \* the mapped values of equal_range for the left element
    result,      \* the std::vector<ResultType> being built
    jpc,         \* position in operator()
    ri,          \* right elements emplaced so far
    li,          \* left elements finished so far
    mi,          \* rows pushed for the current left element
    \* ---- AggregateByKey (AggSpec) ----
    aform,           \* "string": elements are std::string, "selector": not
    aggKind,         \* which aggregator and initial value the adapter holds
    ainput,          \* the elements of the input flow, prev
    aggregated_map,  \* the unordered_map: key -> accumulator
    processed_keys,  \* the unordered_set of the emitting loop
    aresult,         \* the result vector of (key, accumulator) pairs
    apc,             \* which loop of operator() is running
    ai,              \* elements the running loop has taken
    passes,          \* range-for loops over prev begun so far
    \* ---- SplitExpected (SplitExpectedSpec) ----
    sform,       \* "existing": split_existing_expected, "apply": apply_and_split
    Func,        \* the function the adapter was built with
    sinput,      \* the elements of the input flow, prev
    sinput0,     \* the input elements as they were before the adapter ran
    errors,      \* the errors vector
    values,      \* the values vector
    returned,    \* the pair of Flows returned, <<>> before the return
    spc,         \* position in the adapter
    si,          \* elements taken so far
    reads,       \* how often each upstream element has been read
    calls,       \* how often func_ has been applied to each element
    outReads,    \* traversals of the returned Flows so far
    lastRead,    \* what the latest such traversal yielded
    \* ---- lazy views over a container, cursor by cursor (ViewSpec) ----
    adapters,    \* the adapters of the pipe expression, left to right
    flow,        \* the stages of the Flow composed so far, innermost first
    applied,     \* adapters of the pipe expression applied so far
    its,         \* the cursors the caller holds, by name
    touched,     \* the positions of the source elements read so far
    invoked,     \* the stages whose user function has been called so far
    begun,       \* the cursors begin() has returned so far
    yielded,     \* what the complete traversals so far have yielded
    vector,      \* the std::vector AsVector returned, <<>> before
    vpc,         \* position of the caller
    \* ---- files | Split | Transform(parse) | SplitExpected (PipelineSpec) ----
    files,       \* the std::vector<std::stringstream> given to AsDataFlow
    epc,         \* position in the pipe expression
    \* ---- Write (WriteSpec) ----
    winput,      \* the elements of the Flow piped into Write, prev
    delimiter_,  \* WriteAdapter::delimiter_
    os_,         \* the characters written to the stream os_ so far
    first,       \* the local first
    hasElements, \* the local hasElements
    wi,          \* elements written so far
    wpc          \* position in operator()

pipeVars == <<chunks, delimiters_, mode, predKind, cursor, self, ret, pc, out>>

joinVars == <<jform, mmOrder, left, left0, right, right_map, range, result,
              jpc, ri, li, mi>>

aggVars == <<aform, aggKind, ainput, aggregated_map, processed_keys, aresult,
             apc, ai, passes>>

sxVars == <<sform, Func, sinput, sinput0, errors, values, returned, spc, si, reads,
            calls, outReads, lastRead>>

viewVars == <<adapters, flow, applied, its, touched, invoked, begun, yielded,
              vector, vpc>>

e2eVars == <<files, epc>>

writeVars == <<winput, delimiter_, os_, first, hasElements, wi, wpc>>

vars == <<pipeVars, joinVars, aggVars, sxVars, viewVars, e2eVars, writeVars>>

nonPipeVars ==
    <<joinVars, aggVars, sxVars, viewVars, e2eVars, writeVars>>

nonJoinVars ==
    <<pipeVars, aggVars, sxVars, viewVars, e2eVars, writeVars>>

nonAggVars ==
    <<pipeVars, joinVars, sxVars, viewVars, e2eVars, writeVars>>

nonSxVars ==
    <<pipeVars, joinVars, aggVars, viewVars, e2eVars, writeVars>>

nonViewVars ==
    <<pipeVars, joinVars, aggVars, sxVars, e2eVars, writeVars>>

nonE2eVars ==
    <<joinVars, aggVars, viewVars, writeVars>>

nonWriteVars == <<pipeVars, joinVars, aggVars, sxVars, viewVars, e2eVars>>

(***************************************************************************)
(* Bounds of the model.                                                    *)
(***************************************************************************)
MaxChunks == 2
MaxTotalLen == 3
MaxSource == 3

\* A traversal of Split yields at most one token per character plus one per
\* chunk; the cap only stops the traversals that never reach the end cursor.
MaxOut == MaxTotalLen + MaxChunks + 1

MaxLeft == 2
MaxRight == 2
MaxInput == 3
MaxOutReads == 2

Chars == {"a", "B", "."}
DelimSets == SUBSET {"a", "."}

\* The strings of length at most n over Chars.
StrUpTo(n) == UNION {[1..k -> Chars] : k \in 0..n}

\* The sequences of at most n elements of S.
SeqsUpTo(S, n) == UNION {[1..k -> S] : k \in 0..n}

\* The sequences of at most k chunks whose lengths add up to at most budget.
RECURSIVE ChunkSeqs(_, _)
ChunkSeqs(k, budget) ==
    IF k = 0 THEN {<<>>}
    ELSE {<<>>} \cup
         UNION {{<<c>> \o rest : rest \in ChunkSeqs(k - 1, budget - Len(c))}
                : c \in StrUpTo(budget)}

\* The inputs named in the specification's testable properties.
ExampleChunks ==
    {<< <<"a", ".", "b", ".", "c">> >>, << <<"a", ".", ".", "b">> >>}

(***************************************************************************)
(* std::string                                                             *)
(***************************************************************************)
Npos == -1

Min(S) == CHOOSE x \in S : \A y \in S : x <= y

\* content.find_first_of(delims, pos)
find_first_of(content, delims, pos) ==
    LET hits == {i \in pos..(Len(content) - 1) : content[i + 1] \in delims}
    IN  IF hits = {} THEN Npos ELSE Min(hits)

\* content.substr(pos, n) and content.substr(pos)
substr(content, pos, n) == SubSeq(content, pos + 1, pos + n)

substr_from(content, pos) == SubSeq(content, pos + 1, Len(content))

\* std::tolower on one character, and the lambda of main.cpp on a word
tolower(c) == IF c = "B" THEN "b" ELSE c

ToLowerWord(word) == [i \in 1..Len(word) |-> tolower(word[i])]

(***************************************************************************)
(* SplitFlow<Prev>::Iterator over a vector of chunks.  The upstream cursor *)
(* current_ is a 0-based index; the upstream end is Len(chunks).           *)
(***************************************************************************)
UpstreamEnd == Len(chunks)

\* next_token with the offset just past a chunk's last character taken for
\* "past the end": the empty token after a trailing delimiter is lost.
next_token_no_trailing(it) ==
    LET cleared == [it EXCEPT !.current_token_ = <<>>]
        scan(s) ==
            LET end_pos == find_first_of(s.current_content_, delimiters_,
                                         s.current_pos_)
            IN  IF end_pos = Npos
                THEN [s EXCEPT
                        !.current_token_ =
                            substr_from(s.current_content_, s.current_pos_),
                        !.current_pos_ = Npos]
                ELSE [s EXCEPT
                        !.current_token_ =
                            substr(s.current_content_, s.current_pos_,
                                   end_pos - s.current_pos_),
                        !.current_pos_ =
                            IF end_pos + 1 = Len(s.current_content_)
                            THEN Npos ELSE end_pos + 1]
    IN  IF cleared.current_ = Len(chunks) THEN cleared
        ELSE IF cleared.current_pos_ = Npos
        THEN LET moved == [cleared EXCEPT !.current_ = @ + 1]
             IN  IF moved.current_ # Len(chunks)
                 THEN scan([moved EXCEPT
                              !.current_content_ = chunks[moved.current_ + 1],
                              !.current_pos_ = 0])
                 ELSE moved
        ELSE scan(cleared)

\* SplitFlow::Iterator::next_token
next_token(it) ==
    LET cleared == [it EXCEPT !.current_token_ = <<>>]
        scan(s) ==
            LET end_pos == find_first_of(s.current_content_, delimiters_,
                                         s.current_pos_)
            IN  IF end_pos = Npos
                THEN [s EXCEPT
                        !.current_token_ =
                            substr_from(s.current_content_, s.current_pos_),
                        !.current_pos_ = Npos]
                ELSE [s EXCEPT
                        !.current_token_ =
                            substr(s.current_content_, s.current_pos_,
                                   end_pos - s.current_pos_),
                        !.current_pos_ = end_pos + 1]
    IN  IF cleared.current_ = UpstreamEnd THEN cleared
        ELSE IF cleared.current_pos_ = Npos
        THEN LET moved == [cleared EXCEPT !.current_ = @ + 1]
             IN  IF moved.current_ # UpstreamEnd
                 THEN scan([moved EXCEPT
                              !.current_content_ = chunks[moved.current_ + 1],
                              !.current_pos_ = 0])
                 ELSE moved
        ELSE scan(cleared)

\* SplitFlow::Iterator::Iterator(current, end, delimiters)
SplitIterator(current) ==
    LET fresh == [current_ |-> current, current_pos_ |-> 0,
                  current_content_ |-> <<>>, current_token_ |-> <<>>]
    IN  IF current # UpstreamEnd
        THEN next_token([fresh EXCEPT !.current_content_ = chunks[current + 1],
                                      !.current_pos_ = 0])
        ELSE fresh

\* SplitFlow::begin and SplitFlow::end
SplitBegin == SplitIterator(0)

SplitEnd == SplitIterator(UpstreamEnd)

\* SplitFlow::Iterator::operator!=
SplitNeq(a, b) == ~(a.current_ = b.current_ /\ a.current_pos_ = Npos)


(***************************************************************************)
(* The pipelines traversed: Split alone, Split | Filter,                   *)
(* Split | Transform | Filter as in main.cpp, and Filter over the vector   *)
(* itself.  Prev is what Filter wraps: a SplitFlow, a TransformedFlow over *)
(* a SplitFlow (its cursor holds the Split cursor in it_), or the DataFlow *)
(* of the vector, whose cursor is a 0-based index.                         *)
(***************************************************************************)
Modes == {"split", "split_filter", "split_transform_filter", "filter"}

FilterModes == {"split_filter", "split_transform_filter", "filter"}

SplitModes == {"split", "split_filter", "split_transform_filter"}

HasTransform == mode = "split_transform_filter"

\* TransformedFlow::Iterator::Iterator
TransformIterator(it) == [it_ |-> it]

\* Prev::begin and Prev::end
PrevBegin ==
    CASE mode = "filter" -> 0
      [] HasTransform -> TransformIterator(SplitBegin)
      [] OTHER -> SplitBegin

PrevEnd ==
    CASE mode = "filter" -> Len(chunks)
      [] HasTransform -> TransformIterator(SplitEnd)
      [] OTHER -> SplitEnd

\* Prev::iterator::operator*: the vector's element, Split's token, or Split's
\* token through Transform's function
PrevDeref(p) ==
    CASE mode = "filter" -> chunks[p + 1]
      [] HasTransform -> ToLowerWord(p.it_.current_token_)
      [] OTHER -> p.current_token_

\* Prev::iterator::operator!=
PrevNeq(p, q) ==
    CASE mode = "filter" -> p # q
      [] HasTransform -> SplitNeq(p.it_, q.it_)
      [] OTHER -> SplitNeq(p, q)

\* Prev::iterator::operator++
PrevInc(p) ==
    CASE mode = "filter" -> p + 1
      [] HasTransform -> [p EXCEPT !.it_ = next_token(@)]
      [] OTHER -> next_token(p)

\* The predicates of the Filter stage: the token is not empty (main.cpp),
\* has at most one character, holds an "a", or nothing passes.
PredKinds == {"nonempty", "short", "has_a", "none"}

predicate_(word) ==
    CASE predKind = "nonempty" -> word # <<>>
      [] predKind = "short" -> Len(word) <= 1
      [] predKind = "has_a" -> \E i \in 1..Len(word) : word[i] = "a"
      [] OTHER -> FALSE

\* FilteredFlow::Iterator::operator!=
FilterNeq(a, b) == PrevNeq(a.current_, b.current_)

\* operator!=, operator* and the Split cursor of the traversed flow's cursors
CursorNeq(a, b) == IF mode = "split" THEN SplitNeq(a, b) ELSE FilterNeq(a, b)

CursorDeref(c) ==
    IF mode = "split" THEN c.current_token_ ELSE PrevDeref(c.current_)

(***************************************************************************)
(* The traversal `for (auto&& elem : flow) result.push_back(elem)` of      *)
(* AsVector: begin(), end(), then test / dereference / advance.  The loop  *)
(* of FilteredFlow::Iterator::skip_unmatched is taken one test and one     *)
(* advance at a time.                                                      *)
(***************************************************************************)
PipeInit ==
    /\ mode \in Modes
    /\ chunks \in (IF mode = "filter"
                   THEN SeqsUpTo(StrUpTo(1), MaxSource)
                   ELSE ChunkSeqs(MaxChunks, MaxTotalLen) \cup ExampleChunks)
    /\ delimiters_ \in (IF mode = "filter" THEN {{}} ELSE DelimSets)
    /\ predKind \in (CASE mode = "split" -> {"nonempty"}
                       [] mode = "filter" -> PredKinds
                       [] OTHER -> {"nonempty", "short"})
    /\ cursor = <<>>
    /\ self = "begin"
    /\ ret = "begin"
    /\ pc = "begin"
    /\ out = <<>>

\* The traversal's variables while another adapter family runs.
PipeIdle ==
    /\ chunks = <<>>
    /\ delimiters_ = {}
    /\ mode = "split"
    /\ predKind = "nonempty"
    /\ cursor = <<>>
    /\ self = "begin"
    /\ ret = "begin"
    /\ pc = "idle"
    /\ out = <<>>

\* flow.begin(): SplitFlow::begin, or FilteredFlow::begin up to skip_unmatched
CallBegin ==
    /\ pc = "begin"
    /\ IF mode = "split"
       THEN /\ cursor' = [x \in {"begin"} |-> SplitBegin]
            /\ pc' = "end"
            /\ UNCHANGED <<self, ret>>
       ELSE /\ cursor' = [x \in {"begin"} |->
                            [current_ |-> PrevBegin, end_ |-> PrevEnd]]
            /\ self' = "begin"
            /\ ret' = "end"
            /\ pc' = "skip_test"
    /\ UNCHANGED <<chunks, delimiters_, mode, predKind, out>>
    /\ UNCHANGED nonPipeVars

\* flow.end(): SplitFlow::end, or FilteredFlow::end up to skip_unmatched
CallEnd ==
    /\ pc = "end"
    /\ IF mode = "split"
       THEN /\ cursor' = [x \in {"begin", "end"} |->
                            IF x = "end" THEN SplitEnd ELSE cursor[x]]
            /\ pc' = "loop_test"
            /\ UNCHANGED <<self, ret>>
       ELSE /\ cursor' = [x \in {"begin", "end"} |->
                            IF x = "end"
                            THEN [current_ |-> PrevEnd, end_ |-> PrevEnd]
                            ELSE cursor[x]]
            /\ self' = "end"
            /\ ret' = "loop_test"
            /\ pc' = "skip_test"
    /\ UNCHANGED <<chunks, delimiters_, mode, predKind, out>>
    /\ UNCHANGED nonPipeVars

\* skip_unmatched: while (current_ != end_ && !predicate_(*current_))
SkipTest ==
    /\ pc = "skip_test"
    /\ LET c == cursor[self]
       IN  IF PrevNeq(c.current_, c.end_) /\ ~predicate_(PrevDeref(c.current_))
           THEN pc' = "skip_inc"
           ELSE pc' = ret
    /\ UNCHANGED <<chunks, delimiters_, mode, predKind, cursor, self,
                   ret, out>>
    /\ UNCHANGED nonPipeVars

\* skip_unmatched: ++current_
SkipInc ==
    /\ pc = "skip_inc"
    /\ cursor' = [cursor EXCEPT ![self].current_ = PrevInc(@)]
    /\ pc' = "skip_test"
    /\ UNCHANGED <<chunks, delimiters_, mode, predKind, self, ret, out>>
    /\ UNCHANGED nonPipeVars

\* the range-for's test: begin != end
LoopTest ==
    /\ pc = "loop_test"
    /\ IF CursorNeq(cursor["begin"], cursor["end"])
       THEN pc' = "body"
       ELSE pc' = "done"
    /\ UNCHANGED <<chunks, delimiters_, mode, predKind, cursor, self,
                   ret, out>>
    /\ UNCHANGED nonPipeVars

\* elem = *begin; result.push_back(elem)
LoopBody ==
    /\ pc = "body"
    /\ Len(out) < MaxOut
    /\ out' = Append(out, CursorDeref(cursor["begin"]))
    /\ pc' = "incr"
    /\ UNCHANGED <<chunks, delimiters_, mode, predKind, cursor, self, ret>>
    /\ UNCHANGED nonPipeVars

\* ++begin with FilteredFlow::Iterator::operator++ leaving out
\* skip_unmatched
LoopIncrNoSkip ==
    /\ pc = "incr"
    /\ IF mode = "split"
       THEN cursor' = [cursor EXCEPT !["begin"] = next_token(@)]
       ELSE cursor' = [cursor EXCEPT !["begin"].current_ = PrevInc(@)]
    /\ pc' = "loop_test"
    /\ UNCHANGED <<chunks, delimiters_, mode, predKind, self, ret, out>>
    /\ UNCHANGED nonPipeVars

\* ++begin: SplitFlow::Iterator::operator++, or FilteredFlow's up to
\* skip_unmatched
LoopIncr ==
    /\ pc = "incr"
    /\ IF mode = "split"
       THEN /\ cursor' = [cursor EXCEPT !["begin"] = next_token(@)]
            /\ pc' = "loop_test"
            /\ UNCHANGED <<self, ret>>
       ELSE /\ cursor' = [cursor EXCEPT !["begin"].current_ = PrevInc(@)]
            /\ self' = "begin"
            /\ ret' = "loop_test"
            /\ pc' = "skip_test"
    /\ UNCHANGED <<chunks, delimiters_, mode, predKind, out>>
    /\ UNCHANGED nonPipeVars

PipeNext ==
    \/ CallBegin
    \/ CallEnd
    \/ SkipTest
    \/ SkipInc
    \/ LoopTest
    \/ LoopBody
    \/ LoopIncr

(***************************************************************************)
(* Join.  An element of either side is a record [key, name]: a KV<int,     *)
(* std::string> for the paired-key form (SimpleJoinAdapter), a struct such *)
(* as Student or Group for the selector-key form (JoinAdapter), whose key  *)
(* selectors read the key field.  An optional is a sequence of length 0    *)
(* (std::nullopt) or 1.  A result row also records src, the index of the   *)
(* left element operator() was working on when it pushed the row.          *)
(***************************************************************************)
JKeys == {1, 2}

LeftNames == {"x", "y"}

RightNames == {"p", "q"}

LeftElems == [key : JKeys, name : LeftNames]

RightElems == [key : JKeys, name : RightNames]

\* The state of a std::string after it was moved from is valid but
\* unspecified; the standard libraries at hand leave it empty.
MovedFromString(str) == {"", str}

\* The states of a left element after std::forward<LeftValue>(left_value)
\* moved it into a row: the key is an integer, the name a string.
MovedFrom(elem) == {[elem EXCEPT !.name = n] : n \in MovedFromString(elem.name)}

\* Where unordered_multimap::emplace puts an element whose key is already
\* present is not specified: libstdc++ puts it first among its equals,
\* others last.
MultimapOrders == {"prepend", "append"}

\* right_map.equal_range with only the first match, as find() would give
equal_range_first(map, key) ==
    IF key \in DOMAIN map THEN <<map[key][1]>> ELSE <<>>

\* right_map.equal_range(key): the mapped values in iteration order
equal_range(map, key) == IF key \in DOMAIN map THEN map[key] ELSE <<>>

\* right_map.emplace(key, value)
emplace(map, key, value) ==
    LET old == equal_range(map, key)
        new == IF mmOrder = "append" THEN Append(old, value)
               ELSE <<value>> \o old
    IN  [k \in DOMAIN map \cup {key} |-> IF k = key THEN new ELSE map[k]]

\* What the right side maps a key to: the value of the KV, or the element
MappedValue(elem) == IF jform = "kv" THEN elem.name ELSE elem

\* The base of a row built from a left element
BaseOf(elem) == IF jform = "kv" THEN elem.name ELSE elem

JoinInit ==
    /\ jform \in {"kv", "selector"}
    /\ mmOrder \in MultimapOrders
    /\ left \in SeqsUpTo(LeftElems, MaxLeft)
    /\ left0 = left
    /\ right \in SeqsUpTo(RightElems, MaxRight)
    /\ right_map = <<>>
    /\ range = <<>>
    /\ result = <<>>
    /\ jpc = "build"
    /\ ri = 0
    /\ li = 0
    /\ mi = 0

\* The Join variables while another adapter family runs.
JoinIdle ==
    /\ jform = "kv"
    /\ mmOrder = "append"
    /\ left = <<>>
    /\ left0 = <<>>
    /\ right = <<>>
    /\ right_map = <<>>
    /\ range = <<>>
    /\ result = <<>>
    /\ jpc = "idle"
    /\ ri = 0
    /\ li = 0
    /\ mi = 0

\* for (const auto& right_value : right_) right_map.emplace(key, value)
BuildRight ==
    /\ jpc = "build"
    /\ IF ri < Len(right)
       THEN /\ right_map' = emplace(right_map, right[ri + 1].key,
                                    MappedValue(right[ri + 1]))
            /\ ri' = ri + 1
            /\ jpc' = jpc
       ELSE /\ jpc' = "scan"
            /\ UNCHANGED <<right_map, ri>>
    /\ UNCHANGED <<jform, mmOrder, left, left0, right, range, result, li, mi>>
    /\ UNCHANGED nonJoinVars

\* The next left element: its key, equal_range, and the row with
\* std::nullopt when the range is empty.  The selector form builds the row
\* from std::forward<LeftValue>(left_value), which moves the element.
ScanLeft ==
    /\ jpc = "scan"
    /\ li < Len(left)
    /\ LET left_value == left[li + 1]
           found == equal_range(right_map, left_value.key)
       IN  IF found = <<>>
           THEN /\ result' = Append(result,
                        [src |-> li + 1, base |-> BaseOf(left_value),
                         joined |-> <<>>])
                /\ IF jform = "selector"
                   THEN \E after \in MovedFrom(left_value) :
                            left' = [left EXCEPT ![li + 1] = after]
                   ELSE left' = left
                /\ li' = li + 1
                /\ UNCHANGED <<range, mi, jpc>>
           ELSE /\ range' = found
                /\ mi' = 0
                /\ jpc' = "rows"
                /\ UNCHANGED <<result, left, li>>
    /\ UNCHANGED <<jform, mmOrder, left0, right, right_map, ri>>
    /\ UNCHANGED nonJoinVars

\* for (auto it = range.first; it != range.second; ++it) result.push_back(...)
EmitRow ==
    /\ jpc = "rows"
    /\ IF mi < Len(range)
       THEN LET left_value == left[li + 1]
            IN  /\ result' = Append(result,
                        [src |-> li + 1, base |-> BaseOf(left_value),
                         joined |-> <<range[mi + 1]>>])
                /\ IF jform = "selector"
                   THEN \E after \in MovedFrom(left_value) :
                            left' = [left EXCEPT ![li + 1] = after]
                   ELSE left' = left
                /\ mi' = mi + 1
                /\ UNCHANGED <<li, jpc>>
       ELSE /\ li' = li + 1
            /\ jpc' = "scan"
            /\ UNCHANGED <<result, left, mi>>
    /\ UNCHANGED <<jform, mmOrder, left0, right, right_map, range, ri>>
    /\ UNCHANGED nonJoinVars

\* return AsDataFlow(std::move(result))
JoinReturn ==
    /\ jpc = "scan"
    /\ li = Len(left)
    /\ jpc' = "done"
    /\ UNCHANGED <<jform, mmOrder, left, left0, right, right_map, range,
                   result, ri, li, mi>>
    /\ UNCHANGED nonJoinVars

JoinNext ==
    \/ BuildRight
    \/ ScanLeft
    \/ EmitRow
    \/ JoinReturn

(***************************************************************************)
(* AggregateByKey.  An element is a record [key, val].  In the string form *)
(* the element is its own key (val = key) and key_selector_ is not used;   *)
(* in the selector form key_selector_ reads the key field.  The aggregator *)
(* either counts, from 0, or appends the element's val to a list that      *)
(* starts as <<"init">>, so that the fold's order shows.                   *)
(***************************************************************************)
AKeys == {"k1", "k2", "k3"}

AVals == {"u", "v"}

AggElems(form) ==
    IF form = "string" THEN {[key |-> k, val |-> k] : k \in AKeys}
    ELSE [key : AKeys, val : AVals]

\* initial_value_
initial_value_ == IF aggKind = "count" THEN 0 ELSE <<"init">>

\* aggregator_(accumulator, element), as the accumulator it leaves
aggregator_(acc, elem) ==
    IF aggKind = "count" THEN acc + 1 ELSE Append(acc, elem.val)

\* key_selector_(value), or the value itself in the string form
key_selector_(elem) == elem.key

\* AccumulatedType{}: what operator[] inserts for a missing key
DefaultAcc == IF aggKind = "count" THEN 0 ELSE <<>>

\* aggregated_map[key]
MapAt(map, key) == IF key \in DOMAIN map THEN map[key] ELSE DefaultAcc

\* aggregated_map[key] = acc
MapSet(map, key, acc) ==
    [k \in DOMAIN map \cup {key} |-> IF k = key THEN acc ELSE map[k]]

\* The accumulator left in the map by std::move(aggregated_map[key]): an
\* integer is copied, a container is left valid but unspecified.
MovedFromAcc(acc) == IF aggKind = "count" THEN {acc} ELSE {<<>>, acc}

\* processed_keys.insert(key).second reporting every key as new
insert_second_always(keys, key) == TRUE

\* processed_keys.insert(key).second
insert_second(keys, key) == key \notin keys

\* operator() entering the folding loop at once in both forms: the string
\* form without its seeding loop
AggInitNoSeed ==
    /\ aform \in {"string", "selector"}
    /\ aggKind \in {"count", "concat"}
    /\ ainput \in SeqsUpTo(AggElems(aform), MaxInput)
    /\ aggregated_map = <<>>
    /\ processed_keys = {}
    /\ aresult = <<>>
    /\ apc = "fold"
    /\ ai = 0
    /\ passes = 1

AggInit ==
    /\ aform \in {"string", "selector"}
    /\ aggKind \in {"count", "concat"}
    /\ ainput \in SeqsUpTo(AggElems(aform), MaxInput)
    /\ aggregated_map = <<>>
    /\ processed_keys = {}
    /\ aresult = <<>>
    /\ apc = IF aform = "string" THEN "seed" ELSE "fold"
    /\ ai = 0
    /\ passes = 1

\* The AggregateByKey variables while another adapter family runs.
AggIdle ==
    /\ aform = "string"
    /\ aggKind = "count"
    /\ ainput = <<>>
    /\ aggregated_map = <<>>
    /\ processed_keys = {}
    /\ aresult = <<>>
    /\ apc = "idle"
    /\ ai = 0
    /\ passes = 0

\* string form, first loop: aggregated_map[value] = initial_value_
AggSeed ==
    /\ apc = "seed"
    /\ IF ai < Len(ainput)
       THEN /\ aggregated_map' =
                  MapSet(aggregated_map, ainput[ai + 1].key, initial_value_)
            /\ ai' = ai + 1
            /\ UNCHANGED <<apc, passes>>
       ELSE /\ apc' = "fold"
            /\ ai' = 0
            /\ passes' = passes + 1
            /\ UNCHANGED aggregated_map
    /\ UNCHANGED <<aform, aggKind, ainput, processed_keys, aresult>>
    /\ UNCHANGED nonAggVars

\* The folding loop: aggregator_(aggregated_map[key], value); in the selector
\* form the same loop first sets a key not yet in the map to initial_value_.
AggFold ==
    /\ apc = "fold"
    /\ IF ai < Len(ainput)
       THEN LET value == ainput[ai + 1]
                key == key_selector_(value)
                seeded ==
                    IF aform = "selector" /\ key \notin DOMAIN aggregated_map
                    THEN MapSet(aggregated_map, key, initial_value_)
                    ELSE aggregated_map
            IN  /\ aggregated_map' =
                      MapSet(seeded, key, aggregator_(MapAt(seeded, key), value))
                /\ ai' = ai + 1
                /\ UNCHANGED <<apc, passes>>
       ELSE /\ apc' = "emit"
            /\ ai' = 0
            /\ passes' = passes + 1
            /\ UNCHANGED aggregated_map
    /\ UNCHANGED <<aform, aggKind, ainput, processed_keys, aresult>>
    /\ UNCHANGED nonAggVars

\* The emitting loop over prev, then return AsDataFlow(std::move(result)).
\* The selector form moves the accumulator out of the map.
AggEmit ==
    /\ apc = "emit"
    /\ IF ai < Len(ainput)
       THEN LET key == key_selector_(ainput[ai + 1])
            IN  /\ IF insert_second(processed_keys, key)
                   THEN /\ aresult' = Append(aresult,
                                        <<key, MapAt(aggregated_map, key)>>)
                        /\ IF aform = "selector"
                           THEN \E after \in
                                    MovedFromAcc(MapAt(aggregated_map, key)) :
                                    aggregated_map' =
                                        MapSet(aggregated_map, key, after)
                           ELSE aggregated_map' =
                                    MapSet(aggregated_map, key,
                                           MapAt(aggregated_map, key))
                   ELSE UNCHANGED <<aresult, aggregated_map>>
                /\ processed_keys' = processed_keys \cup {key}
                /\ ai' = ai + 1
                /\ UNCHANGED apc
       ELSE /\ apc' = "done"
            /\ UNCHANGED <<aresult, aggregated_map, processed_keys, ai>>
    /\ UNCHANGED <<aform, aggKind, ainput, passes>>
    /\ UNCHANGED nonAggVars

AggNext ==
    \/ AggSeed
    \/ AggFold
    \/ AggEmit

(***************************************************************************)
(* SplitExpected.  A fallible result (std::expected) is a record           *)
(* [ok, payload].  In the form "existing" the input elements are fallible  *)
(* results already (values are integers, errors strings, as in             *)
(* SplitExpectedBaseTest); in the form "apply" they are strings and func_  *)
(* is ParseDepartment of the tests.                                        *)
(***************************************************************************)
ExpectedElems ==
    {[ok |-> TRUE, payload |-> v] : v \in {1, 2}}
        \cup {[ok |-> FALSE, payload |-> e] : e \in {"error1", "error2"}}

RawElems == UNION {[1..k -> {"a", " "}] : k \in 0..2}

\* ParseDepartment
ParseDepartment(str) ==
    IF str = <<>>
    THEN [ok |-> FALSE, payload |-> "Department name is empty"]
    ELSE IF \E i \in 1..Len(str) : str[i] = " "
    THEN [ok |-> FALSE, payload |-> "Department name contains space"]
    ELSE [ok |-> TRUE, payload |-> str]

\* A function of the caller's on fallible results: it turns every element
\* down.
RejectAll(elem) == [ok |-> FALSE, payload |-> "rejected"]

\* The functions an adapter is built with: the lambda of SplitExpected()
\* that hands its argument on, ParseDepartment on strings, RejectAll on
\* fallible results.
Funcs(form) ==
    IF form = "existing" THEN {"identity", "RejectAll"}
    ELSE {"ParseDepartment"}

\* func_
func_(elem) ==
    CASE Func = "ParseDepartment" -> ParseDepartment(elem)
      [] Func = "RejectAll" -> RejectAll(elem)
      [] Func = "identity" -> elem

\* operator() taking apply_and_split whatever the elements are
IsExpectedVNone == FALSE

\* detail::IsExpectedV<ValueType> in operator(): the elements of the input
\* are fallible results already
IsExpectedV == sform = "existing"

\* One application of func_, added twice to the count
InvokeTwice(count, i) == [count EXCEPT ![i] = @ + 2]

\* One application of func_ to element i, in the count of applications
Invoke(count, i) == [count EXCEPT ![i] = @ + 1]

\* The returned pair with the values first
MakePairSwapped(errs, vals) == <<vals, errs>>

\* std::make_pair(AsDataFlow(std::move(errors)), AsDataFlow(std::move(values)))
MakePair(errs, vals) == <<errs, vals>>

\* The input element after std::move(*elem) or std::move(elem.error()) took
\* its payload: an integer is copied, a string is left valid but unspecified.
MovedFromExpected(elem) ==
    IF elem.ok THEN {elem}
    ELSE {[elem EXCEPT !.payload = e] : e \in MovedFromString(elem.payload)}

SxInit ==
    /\ sform \in {"existing", "apply"}
    /\ Func \in Funcs(sform)
    /\ sinput \in SeqsUpTo(IF sform = "existing" THEN ExpectedElems
                           ELSE RawElems, MaxInput)
    /\ sinput0 = sinput
    /\ errors = <<>>
    /\ values = <<>>
    /\ returned = <<>>
    /\ spc = "drain"
    /\ si = 0
    /\ reads = [i \in 1..Len(sinput) |-> 0]
    /\ calls = [i \in 1..Len(sinput) |-> 0]
    /\ outReads = 0
    /\ lastRead = <<>>

\* The SplitExpected variables while another adapter family runs.
SxIdle ==
    /\ sform = "existing"
    /\ Func = "identity"
    /\ sinput = <<>>
    /\ sinput0 = <<>>
    /\ errors = <<>>
    /\ values = <<>>
    /\ returned = <<>>
    /\ spc = "idle"
    /\ si = 0
    /\ reads = <<>>
    /\ calls = <<>>
    /\ outReads = 0
    /\ lastRead = <<>>

\* The loop of split_existing_expected or apply_and_split, then the return
SxDrain ==
    /\ spc = "drain"
    /\ IF si < Len(sinput)
       THEN LET elem == sinput[si + 1]
                res == IF IsExpectedV THEN elem ELSE func_(elem)
            IN  /\ reads' = [reads EXCEPT ![si + 1] = @ + 1]
                /\ calls' = IF ~IsExpectedV THEN Invoke(calls, si + 1)
                            ELSE calls
                /\ IF res.ok
                   THEN /\ values' = Append(values, res.payload)
                        /\ UNCHANGED errors
                   ELSE /\ errors' = Append(errors, res.payload)
                        /\ UNCHANGED values
                /\ IF IsExpectedV
                   THEN \E after \in MovedFromExpected(elem) :
                            sinput' = [sinput EXCEPT ![si + 1] = after]
                   ELSE sinput' = sinput
                /\ si' = si + 1
                /\ UNCHANGED <<spc, returned>>
       ELSE /\ returned' = MakePair(errors, values)
            /\ spc' = "done"
            /\ UNCHANGED <<sinput, errors, values, si, reads, calls>>
    /\ UNCHANGED <<sform, Func, sinput0, outReads, lastRead>>
    /\ UNCHANGED nonSxVars

\* The caller traverses one of the two returned Flows: a DataFlowSource over
\* the vector moved into it.
SxReadOutput ==
    /\ spc = "done"
    /\ outReads < MaxOutReads
    /\ \E which \in {1, 2} : lastRead' = <<which, returned[which]>>
    /\ outReads' = outReads + 1
    /\ UNCHANGED <<sform, Func, sinput, sinput0, errors, values, returned, spc,
                   si,
                   reads, calls>>
    /\ UNCHANGED nonSxVars

SxNext ==
    \/ SxDrain
    \/ SxReadOutput

(***************************************************************************)
(* Lazy views over a container, followed cursor by cursor.  The source is  *)
(* the vector chunks; a Flow is the sequence of its stages, innermost      *)
(* first, and a cursor of the Flow of k stages wraps a cursor of the Flow  *)
(* of k - 1 stages: the container's cursor is a 0-based index, Transform   *)
(* holds it_, Filter holds current_ and end_, Split (directly over the     *)
(* container) is the SplitFlow cursor above.  An element of the vector is  *)
(* a string of at most one character, which also stands for a              *)
(* std::optional: empty, or holding that character.                        *)
(*                                                                         *)
(* Every cursor operation takes and gives the log of what has been read    *)
(* and called so far: reads, the 1-based positions of the source elements  *)
(* read, and calls, the stages whose predicate or function has run.        *)
(***************************************************************************)
MaxViewLen == 2

CursorNames == {"c1", "c2"}

FilterStages == {"Filter", "FilterHasValue"}

TransformStages == {"TransformF", "TransformG", "TransformGF", "TransformValue"}

\* The pipe expressions followed: source | adapters[1] | adapters[2] | ...
PipeExprs ==
    {<<"TransformF", "TransformG">>, <<"TransformGF">>,
     <<"Filter">>, <<"Filter", "TransformF">>, <<"TransformF", "Filter">>,
     <<"DropNullopt">>, <<"Split">>, <<"Split", "TransformF">>,
     <<"Filter", "TransformF", "AsVector">>, <<"DropNullopt", "AsVector">>}

HasAdapter(as, a) == \E i \in 1..Len(as) : as[i] = a

\* The functions of the Transform stages: f lowers the case, g appends a
\* mark, and the third is x => g(f(x)).
func_f(word) == ToLowerWord(word)

func_g(word) == Append(word, "B")

\* opt.has_value() and opt.value()
has_value(opt) == opt # <<>>

opt_value(opt) == IF has_value(opt) THEN opt[1] ELSE "bad_optional_access"

\* func_ of a Transform stage and predicate_ of a Filter stage
StageFunc(stage, x) ==
    CASE stage = "TransformF" -> func_f(x)
      [] stage = "TransformG" -> func_g(x)
      [] stage = "TransformGF" -> func_g(func_f(x))
      [] OTHER -> opt_value(x)

StagePred(stage, x) ==
    IF stage = "FilterHasValue" THEN has_value(x) ELSE predicate_(x)

\* DropNullopt without its Filter: Transform(value) alone
StagesNoFilter(adapter) ==
    IF adapter = "DropNullopt" THEN <<"TransformValue">> ELSE <<adapter>>

\* DropNullopt is Filter(has_value) | Transform(value); every other lazy
\* adapter is one stage.
Stages(adapter) ==
    IF adapter = "DropNullopt" THEN <<"FilterHasValue", "TransformValue">>
    ELSE <<adapter>>

\* The log as the caller sees it.
Log == [reads |-> touched, calls |-> invoked]

\* A read that also fetches the element after the one asked for
ReadAhead(L, i) == [L EXCEPT !.reads = @ \cup {i, i + 1}]

\* *it on the container's cursor, in the log
Read(L, i) == [L EXCEPT !.reads = @ \cup {i}]

\* A call of stage k's predicate or function, in the log
Call(L, k) == [L EXCEPT !.calls = @ \cup {k}]

\* operator* handing on the upstream element without applying func_
ApplyFuncNone(k, x) == x

\* TransformedFlow::Iterator::operator*: func_ applied to the upstream element
ApplyFunc(k, x) == StageFunc(flow[k], x)

RECURSIVE IterNeq(_, _, _)
\* operator!= of the cursors of the Flow of k stages
IterNeq(k, a, b) ==
    IF k = 0 THEN a # b
    ELSE IF flow[k] = "Split" THEN SplitNeq(a, b)
    ELSE IF flow[k] \in TransformStages THEN IterNeq(k - 1, a.it_, b.it_)
    ELSE IterNeq(k - 1, a.current_, b.current_)

RECURSIVE IterDeref(_, _, _)
\* operator* of a cursor of the Flow of k stages
IterDeref(k, it, L) ==
    IF k = 0 THEN [val |-> chunks[it + 1], log |-> Read(L, it + 1)]
    ELSE IF flow[k] = "Split" THEN [val |-> it.current_token_, log |-> L]
    ELSE IF flow[k] \in TransformStages
    THEN LET r == IterDeref(k - 1, it.it_, L)
         IN  [val |-> ApplyFunc(k, r.val), log |-> Call(r.log, k)]
    ELSE IterDeref(k - 1, it.current_, L)

\* The chunk next_token reads: the next one, when the cursor has used up
\* its chunk and another one follows.
NextTokenReads(it, L) ==
    IF /\ it.current_ # UpstreamEnd
       /\ it.current_pos_ = Npos
       /\ it.current_ + 1 # UpstreamEnd
    THEN Read(L, it.current_ + 2)
    ELSE L

RECURSIVE IterInc(_, _, _)
RECURSIVE skip_unmatched(_, _, _)
\* operator++ of a cursor of the Flow of k stages
IterInc(k, it, L) ==
    IF k = 0 THEN [it |-> it + 1, log |-> L]
    ELSE IF flow[k] = "Split"
    THEN [it |-> next_token(it), log |-> NextTokenReads(it, L)]
    ELSE IF flow[k] \in TransformStages
    THEN LET r == IterInc(k - 1, it.it_, L)
         IN  [it |-> [it EXCEPT !.it_ = r.it], log |-> r.log]
    ELSE LET r == IterInc(k - 1, it.current_, L)
         IN  skip_unmatched(k, [it EXCEPT !.current_ = r.it], r.log)

\* FilteredFlow::Iterator::skip_unmatched
skip_unmatched(k, it, L) ==
    IF ~IterNeq(k - 1, it.current_, it.end_) THEN [it |-> it, log |-> L]
    ELSE LET d == IterDeref(k - 1, it.current_, L)
             tested == Call(d.log, k)
         IN  IF StagePred(flow[k], d.val) THEN [it |-> it, log |-> tested]
             ELSE LET r == IterInc(k - 1, it.current_, tested)
                  IN  skip_unmatched(k, [it EXCEPT !.current_ = r.it], r.log)

\* FilteredFlow::Iterator::Iterator without skip_unmatched
FilterIteratorNoSkip(k, current, end, L) ==
    [it |-> [current_ |-> current, end_ |-> end], log |-> L]

\* FilteredFlow::Iterator::Iterator(current, end, predicate)
FilterIterator(k, current, end, L) ==
    skip_unmatched(k, [current_ |-> current, end_ |-> end], L)

\* SplitFlow::Iterator::Iterator reads the chunk it is built on
SplitIteratorReads(current, L) ==
    IF current # UpstreamEnd THEN Read(L, current + 1) ELSE L

RECURSIVE FlowEnd(_, _)
\* end() of the Flow of k stages
FlowEnd(k, L) ==
    IF k = 0 THEN [it |-> Len(chunks), log |-> L]
    ELSE IF flow[k] = "Split"
    THEN [it |-> SplitEnd, log |-> SplitIteratorReads(UpstreamEnd, L)]
    ELSE IF flow[k] \in TransformStages
    THEN LET r == FlowEnd(k - 1, L)
         IN  [it |-> TransformIterator(r.it), log |-> r.log]
    ELSE LET c == FlowEnd(k - 1, L)
             e == FlowEnd(k - 1, c.log)
         IN  FilterIterator(k, c.it, e.it, e.log)

RECURSIVE FlowBegin(_, _)
\* begin() of the Flow of k stages
FlowBegin(k, L) ==
    IF k = 0 THEN [it |-> 0, log |-> L]
    ELSE IF flow[k] = "Split"
    THEN [it |-> SplitBegin, log |-> SplitIteratorReads(0, L)]
    ELSE IF flow[k] \in TransformStages
    THEN LET r == FlowBegin(k - 1, L)
         IN  [it |-> TransformIterator(r.it), log |-> r.log]
    ELSE LET c == FlowBegin(k - 1, L)
             e == FlowEnd(k - 1, c.log)
         IN  FilterIterator(k, c.it, e.it, e.log)

RECURSIVE Drain(_, _, _, _, _)
\* for (auto&& elem : prev) result.push_back(elem), from begin to end
Drain(k, it, end, L, acc) ==
    IF ~IterNeq(k, it, end) THEN [vec |-> acc, log |-> L]
    ELSE LET d == IterDeref(k, it, L)
             r == IterInc(k, it, d.log)
         IN  Drain(k, r.it, end, r.log, Append(acc, d.val))

\* A lazy adapter whose constructor already reads the first source element
ComposeEager(adapter, L) ==
    [stages |-> Stages(adapter),
     log |-> IF chunks # <<>> THEN Read(L, 1) ELSE L]

\* What applying a lazy adapter's operator() does: the new Flow's
\* constructor takes the previous Flow and the function by value, and reads
\* nothing.
Compose(adapter, L) == [stages |-> Stages(adapter), log |-> L]

\* One cursor state behind all the cursors the caller holds: what the Flow
\* would give if it kept the traversal's state itself
AssignIteratorShared(cursors, c, new) ==
    [x \in DOMAIN cursors |->
        IF x = c THEN new
        ELSE IF cursors[x].st \in {"begun", "ranged"}
        THEN [cursors[x] EXCEPT !.it = new.it]
        ELSE cursors[x]]

\* The cursor object the caller holds is its own: a copy of what begin()
\* or operator++ gave, with all its members.
AssignIterator(cursors, c, new) == [cursors EXCEPT ![c] = new]

NoCursor == [st |-> "none", it |-> <<>>, end |-> <<>>, n |-> 0, out |-> <<>>]

ViewInit ==
    /\ adapters \in PipeExprs
    /\ chunks \in (IF HasAdapter(adapters, "Split")
                   THEN ChunkSeqs(MaxChunks, MaxViewLen)
                   ELSE SeqsUpTo(StrUpTo(1), MaxSource))
    /\ delimiters_ \in (IF HasAdapter(adapters, "Split") THEN DelimSets
                        ELSE {{}})
    /\ predKind \in (IF HasAdapter(adapters, "Filter") THEN PredKinds
                     ELSE {"nonempty"})
    /\ mode = "split"
    /\ cursor = <<>>
    /\ self = "begin"
    /\ ret = "begin"
    /\ pc = "idle"
    /\ out = <<>>
    /\ flow = <<>>
    /\ applied = 0
    /\ its = [c \in CursorNames |-> NoCursor]
    /\ touched = {}
    /\ invoked = {}
    /\ begun = <<>>
    /\ yielded = <<>>
    /\ vector = <<>>
    /\ vpc = "compose"

\* The view variables while another adapter family runs.
ViewIdle ==
    /\ adapters = <<>>
    /\ flow = <<>>
    /\ applied = 0
    /\ its = [c \in CursorNames |-> NoCursor]
    /\ touched = {}
    /\ invoked = {}
    /\ begun = <<>>
    /\ yielded = <<>>
    /\ vector = <<>>
    /\ vpc = "idle"

\* operator|: the next adapter of the pipe expression is applied to the Flow
\* so far.  A lazy adapter wraps it; AsVector runs its loop and returns the
\* vector.
Pipe ==
    /\ vpc = "compose"
    /\ applied < Len(adapters)
    /\ applied' = applied + 1
    /\ IF adapters[applied + 1] = "AsVector"
       THEN LET b == FlowBegin(Len(flow), Log)
                e == FlowEnd(Len(flow), b.log)
                d == Drain(Len(flow), b.it, e.it, e.log, <<>>)
            IN  /\ vector' = d.vec
                /\ touched' = d.log.reads
                /\ invoked' = d.log.calls
                /\ vpc' = "returned"
                /\ flow' = flow
       ELSE LET r == Compose(adapters[applied + 1], Log)
            IN  /\ flow' = flow \o r.stages
                /\ touched' = r.log.reads
                /\ invoked' = r.log.calls
                /\ vpc' = IF applied + 1 = Len(adapters) THEN "traverse"
                          ELSE "compose"
                /\ vector' = vector
    /\ UNCHANGED <<adapters, its, begun, yielded>>
    /\ UNCHANGED nonViewVars

\* auto it = flow.begin(), for a cursor the caller does not hold yet; c1 is
\* the name of the caller's first cursor
GetBegin(c) ==
    /\ vpc = "traverse"
    /\ its[c].st = "none"
    /\ c = "c2" => its["c1"].st # "none"
    /\ LET r == FlowBegin(Len(flow), Log)
       IN  /\ its' = AssignIterator(its, c,
                        [NoCursor EXCEPT !.st = "begun", !.it = r.it])
           /\ begun' = Append(begun, r.it)
           /\ touched' = r.log.reads
           /\ invoked' = r.log.calls
    /\ UNCHANGED <<adapters, flow, applied, yielded, vector, vpc>>
    /\ UNCHANGED nonViewVars

\* auto end = flow.end(), for the traversal of cursor c
GetEnd(c) ==
    /\ vpc = "traverse"
    /\ its[c].st = "begun"
    /\ LET r == FlowEnd(Len(flow), Log)
       IN  /\ its' = AssignIterator(its, c,
                        [its[c] EXCEPT !.st = "ranged", !.end = r.it])
           /\ touched' = r.log.reads
           /\ invoked' = r.log.calls
    /\ UNCHANGED <<adapters, flow, applied, begun, yielded, vector, vpc>>
    /\ UNCHANGED nonViewVars

\* One round of the loop on cursor c: it != end, then *it and ++it
Step(c) ==
    /\ vpc = "traverse"
    /\ its[c].st = "ranged"
    /\ IF IterNeq(Len(flow), its[c].it, its[c].end)
       THEN /\ its[c].n < MaxOut
            /\ LET d == IterDeref(Len(flow), its[c].it, Log)
                   r == IterInc(Len(flow), its[c].it, d.log)
               IN  /\ its' = AssignIterator(its, c,
                                [its[c] EXCEPT !.it = r.it, !.n = @ + 1,
                                               !.out = Append(@, d.val)])
                   /\ touched' = r.log.reads
                   /\ invoked' = r.log.calls
            /\ UNCHANGED yielded
       ELSE /\ its' = AssignIterator(its, c,
                         [its[c] EXCEPT !.st = "finished"])
            /\ yielded' = Append(yielded, its[c].out)
            /\ UNCHANGED <<touched, invoked>>
    /\ UNCHANGED <<adapters, flow, applied, begun, vector, vpc>>
    /\ UNCHANGED nonViewVars

ViewNext ==
    \/ Pipe
    \/ \E c \in CursorNames : GetBegin(c)
    \/ \E c \in CursorNames : GetEnd(c)
    \/ \E c \in CursorNames : Step(c)

(***************************************************************************)
(* The pipe expression of SplitExpectedTest:                               *)
(*   AsDataFlow(files) | Split("|") | Transform(ParseDepartment)           *)
(*                     | SplitExpected(ParseDepartment)                    *)
(* A std::stringstream is a record of its buffer, buf, and read position,  *)
(* gpos.  AsDataFlow copies the streams' contents into the vector chunks;  *)
(* the elements SplitExpected takes are fallible results already, so it    *)
(* runs split_existing_expected over the cursors of Transform over Split,  *)
(* filling errors and values.                                              *)
(***************************************************************************)
MaxFiles == 2
MaxFileLen == 2

DepartmentChars == {"a", " ", "|"}

GoodDepartment ==
    <<"g", "o", "o", "d", "-", "d", "e", "p", "a", "r", "t", "m", "e", "n",
      "t">>

BadDepartment ==
    <<"b", "a", "d", " ", "d", "e", "p", "a", "r", "t", "m", "e", "n", "t">>

AnotherGoodDepartment ==
    <<"a", "n", "o", "t", "h", "e", "r", "-", "g", "o", "o", "d", "-", "d",
      "e", "p", "a", "r", "t", "m", "e", "n", "t">>

\* files[0] of SplitExpectedTest
ExampleFile ==
    GoodDepartment \o <<"|">> \o BadDepartment \o <<"|", "|">>
        \o AnotherGoodDepartment

\* The sequences of at most k buffers over DepartmentChars whose lengths add
\* up to at most budget.
RECURSIVE BufferSeqs(_, _)
BufferSeqs(k, budget) ==
    IF k = 0 THEN {<<>>}
    ELSE {<<>>} \cup
         UNION {{<<c>> \o rest : rest \in BufferSeqs(k - 1, budget - Len(c))}
                : c \in UNION {[1..n -> DepartmentChars] : n \in 0..budget}}

\* std::stringstream::str(): the whole buffer, wherever the read position is
str(ss) == ss.buf

\* AsDataFlow on a container of std::stringstream: contents.push_back(ss.str())
AsDataFlowContents(container) ==
    [i \in 1..Len(container) |-> str(container[i])]

E2eInit ==
    /\ files \in {[i \in 1..Len(bufs) |-> [buf |-> bufs[i], gpos |-> 0]] :
                    bufs \in BufferSeqs(MaxFiles, MaxFileLen)
                                \cup {<<ExampleFile>>}}
    /\ epc = "source"
    /\ chunks = <<>>
    /\ delimiters_ = {"|"}
    /\ mode = "split"
    /\ predKind = "nonempty"
    /\ cursor = <<>>
    /\ self = "begin"
    /\ ret = "begin"
    /\ pc = "idle"
    /\ out = <<>>
    /\ SxIdle

\* The pipeline's variables while another adapter family runs.
E2eIdle ==
    /\ files = <<>>
    /\ epc = "idle"

\* AsDataFlow(files), and the Flows of Split and Transform composed over it
E2eSource ==
    /\ epc = "source"
    /\ chunks' = AsDataFlowContents(files)
    /\ epc' = "range"
    /\ UNCHANGED <<delimiters_, mode, predKind, cursor, self, ret, pc, out>>
    /\ UNCHANGED <<sxVars, files>>
    /\ UNCHANGED nonE2eVars

\* split_existing_expected: the begin and end cursors of its range-for
E2eRange ==
    /\ epc = "range"
    /\ cursor' = [x \in {"begin", "end"} |->
                    IF x = "begin" THEN TransformIterator(SplitBegin)
                    ELSE TransformIterator(SplitEnd)]
    /\ epc' = "loop"
    /\ UNCHANGED <<chunks, delimiters_, mode, predKind, self, ret, pc, out>>
    /\ UNCHANGED <<sxVars, files>>
    /\ UNCHANGED nonE2eVars

\* split_existing_expected: one round of the loop, or the return after it
E2eDrain ==
    /\ epc = "loop"
    /\ IF SplitNeq(cursor["begin"].it_, cursor["end"].it_)
       THEN LET elem == ParseDepartment(cursor["begin"].it_.current_token_)
            IN  /\ Len(errors) + Len(values) < MaxOut
                /\ IF elem.ok
                   THEN /\ values' = Append(values, elem.payload)
                        /\ UNCHANGED errors
                   ELSE /\ errors' = Append(errors, elem.payload)
                        /\ UNCHANGED values
                /\ cursor' = [cursor EXCEPT !["begin"].it_ = next_token(@)]
                /\ UNCHANGED <<returned, epc>>
       ELSE /\ returned' = MakePair(errors, values)
            /\ epc' = "done"
            /\ UNCHANGED <<errors, values, cursor>>
    /\ UNCHANGED <<chunks, delimiters_, mode, predKind, self, ret, pc, out>>
    /\ UNCHANGED <<sform, Func, sinput, sinput0, spc, si, reads, calls,
                   outReads,
                   lastRead, files>>
    /\ UNCHANGED nonE2eVars

E2eNext ==
    \/ E2eSource
    \/ E2eRange
    \/ E2eDrain

(***************************************************************************)
(* Write.  The elements are integers; os_ << elem writes the decimal       *)
(* digits of the element, after a minus sign when it is negative.  The     *)
(* stream is the sequence of the characters written to it.                 *)
(***************************************************************************)
MaxWrite == 3

WriteElems == {0, 5, 12, -3}

Delimiters == {"|", ","}

\* The input of WriteTest.Write
ExampleWrite == <<1, 2, 3, 4, 5>>

Digit(d) == <<"0", "1", "2", "3", "4", "5", "6", "7", "8", "9">>[d + 1]

\* The decimal digits of a natural number, most significant first
RECURSIVE Decimal(_)
Decimal(n) ==
    IF n < 10 THEN <<Digit(n)>> ELSE Append(Decimal(n \div 10), Digit(n % 10))

\* os_ << elem, for an int
PutInt(stream, elem) ==
    IF elem < 0 THEN stream \o <<"-">> \o Decimal(0 - elem)
    ELSE stream \o Decimal(elem)

\* os_ << delimiter_
PutDelimiter(stream) == Append(stream, delimiter_)

\* The separator after the loop, written whether or not there was an element
AfterLoopAlways(stream) == PutDelimiter(stream)

\* if (hasElements) os_ << delimiter_
AfterLoop(stream) == IF hasElements THEN PutDelimiter(stream) ELSE stream

WriteInit ==
    /\ winput \in SeqsUpTo(WriteElems, MaxWrite) \cup {ExampleWrite}
    /\ delimiter_ \in Delimiters
    /\ os_ = <<>>
    /\ first = TRUE
    /\ hasElements = FALSE
    /\ wi = 0
    /\ wpc = "loop"

\* The Write variables while another adapter family runs.
WriteIdle ==
    /\ winput = <<>>
    /\ delimiter_ = "|"
    /\ os_ = <<>>
    /\ first = TRUE
    /\ hasElements = FALSE
    /\ wi = 0
    /\ wpc = "idle"

\* One round of for (auto&& elem : prev), or what follows the loop
WriteLoop ==
    /\ wpc = "loop"
    /\ IF wi < Len(winput)
       THEN /\ os_' = PutInt(IF ~first THEN PutDelimiter(os_) ELSE os_,
                             winput[wi + 1])
            /\ first' = FALSE
            /\ hasElements' = TRUE
            /\ wi' = wi + 1
            /\ UNCHANGED wpc
       ELSE /\ os_' = AfterLoop(os_)
            /\ wpc' = "done"
            /\ UNCHANGED <<first, hasElements, wi>>
    /\ UNCHANGED <<winput, delimiter_>>
    /\ UNCHANGED nonWriteVars

WriteNext == WriteLoop

(***************************************************************************)
(* The specifications, one per adapter family.  The program is one         *)
(* sequential thread, so an enabled step is taken.                         *)
(***************************************************************************)
Init == PipeInit /\ JoinIdle /\ AggIdle /\ SxIdle /\ ViewIdle /\ E2eIdle
        /\ WriteIdle

Next == PipeNext

Spec == Init /\ [][Next]_vars /\ WF_vars(Next)

JoinStart ==
    JoinInit /\ PipeIdle /\ AggIdle /\ SxIdle /\ ViewIdle /\ E2eIdle
        /\ WriteIdle

JoinSpec == JoinStart /\ [][JoinNext]_vars /\ WF_vars(JoinNext)

AggStart ==
    AggInit /\ PipeIdle /\ JoinIdle /\ SxIdle /\ ViewIdle /\ E2eIdle
        /\ WriteIdle

AggSpec == AggStart /\ [][AggNext]_vars /\ WF_vars(AggNext)

SxStart ==
    SxInit /\ PipeIdle /\ JoinIdle /\ AggIdle /\ ViewIdle /\ E2eIdle
        /\ WriteIdle

SplitExpectedSpec == SxStart /\ [][SxNext]_vars /\ WF_vars(SxNext)

ViewStart ==
    ViewInit /\ JoinIdle /\ AggIdle /\ SxIdle /\ E2eIdle /\ WriteIdle

ViewSpec == ViewStart /\ [][ViewNext]_vars /\ WF_vars(ViewNext)

PipelineStart == E2eInit /\ JoinIdle /\ AggIdle /\ ViewIdle /\ WriteIdle

PipelineSpec == PipelineStart /\ [][E2eNext]_vars /\ WF_vars(E2eNext)

WriteStart ==
    WriteInit /\ PipeIdle /\ JoinIdle /\ AggIdle /\ SxIdle /\ ViewIdle
        /\ E2eIdle

WriteSpec == WriteStart /\ [][WriteNext]_vars /\ WF_vars(WriteNext)

\* A pipe expression ending in a lazy view or in one of the eager adapters.
ComposeStart == ViewStart \/ JoinStart \/ AggStart \/ SxStart

ComposeNext == ViewNext \/ JoinNext \/ AggNext \/ SxNext

ComposeSpec == ComposeStart /\ [][ComposeNext]_vars /\ WF_vars(ComposeNext)

(***************************************************************************)
(* Reference definitions for the Split claims, stated on the chunk text    *)
(* and not on the cursor.                                                  *)
(***************************************************************************)
\* The 1-based positions of the delimiter characters of a chunk.
DelimPositions(chunk) == {i \in 1..Len(chunk) : chunk[i] \in delimiters_}

\* The j-th (1-based) delimiter-free piece of a chunk: from just after the
\* (j-1)-th delimiter to just before the j-th, the ends of the chunk
\* standing for the 0-th and the last.
Piece(chunk, j) ==
    LET D == DelimPositions(chunk)
        cuts == {0} \cup D \cup {Len(chunk) + 1}
        below(p) == Cardinality({q \in cuts : q < p})
        lo == CHOOSE p \in cuts : below(p) = j - 1
        hi == CHOOSE p \in cuts : below(p) = j
    IN  SubSeq(chunk, lo + 1, hi - 1)

Pieces(chunk) ==
    [j \in 1..(Cardinality(DelimPositions(chunk)) + 1) |-> Piece(chunk, j)]

RECURSIVE AllPieces(_)
AllPieces(cs) == IF cs = <<>> THEN <<>> ELSE Pieces(Head(cs)) \o AllPieces(Tail(cs))

\* The Split cursors held by the cursors built so far.
SplitCursorOf(c) ==
    IF mode = "split" THEN c
    ELSE IF HasTransform THEN c.current_.it_ ELSE c.current_

SplitCursors ==
    IF mode \in SplitModes
    THEN {SplitCursorOf(cursor[x]) : x \in DOMAIN cursor}
    ELSE {}

IsPrefix(a, b) == Len(a) <= Len(b) /\ SubSeq(b, 1, Len(a)) = a

RECURSIVE SumLen(_)
SumLen(ss) == IF ss = <<>> THEN 0 ELSE Len(Head(ss)) + SumLen(Tail(ss))

\* What Split | [Transform] | Filter is to yield: the tokens of Split, through
\* Transform's function, that satisfy the predicate.
ExpectedFiltered ==
    LET toks == AllPieces(chunks)
        seen == IF HasTransform
                THEN [i \in 1..Len(toks) |-> ToLowerWord(toks[i])]
                ELSE toks
    IN  SelectSeq(seen, predicate_)

(***************************************************************************)
(* C1.  Traversing Split | Filter(token is non-empty), with or without a   *)
(* Transform in between, terminates and has then yielded exactly the       *)
(* non-empty tokens of Split in their order.                               *)
(***************************************************************************)
C1_FilteredSplitTerminates ==
    (mode \in {"split_filter", "split_transform_filter"}
        /\ predKind = "nonempty")
        => <>(pc = "done" /\ out = ExpectedFiltered)

(***************************************************************************)
(* C2.  Every Split cursor whose upstream cursor is exhausted has an empty *)
(* token and compares equal to the end cursor; so the traversal of Split   *)
(* over an empty upstream yields nothing.                                  *)
(***************************************************************************)
C2_ExhaustedIsTerminal ==
    /\ \A c \in SplitCursors :
          c.current_ = UpstreamEnd
              => (c.current_token_ = <<>> /\ ~SplitNeq(c, SplitEnd))
    /\ (mode = "split" /\ chunks = <<>>) => out = <<>>

(***************************************************************************)
(* C3.  Over a non-empty upstream the traversal of Split yields, chunk by  *)
(* chunk, the k+1 delimiter-free pieces of a chunk with k delimiters,      *)
(* empty ones included: never a token outside that sequence on the way,    *)
(* all of it at the end; no token holds a delimiter; "a.b.c" on "." gives  *)
(* a, b, c and "a..b" gives a, "", b.                                      *)
(***************************************************************************)
C3_SplitTokens ==
    (mode = "split" /\ chunks # <<>>) =>
        /\ IsPrefix(out, AllPieces(chunks))
        /\ \A i \in 1..Len(out) : \A j \in 1..Len(out[i]) :
              out[i][j] \notin delimiters_
        /\ pc = "done" =>
              /\ out = AllPieces(chunks)
              /\ Len(out) = Len(chunks)
                    + Cardinality(UNION {{<<c, i>> : i \in DelimPositions(chunks[c])}
                                         : c \in 1..Len(chunks)})
              /\ SumLen(out) + Len(out) = SumLen(chunks) + Len(chunks)
              /\ (chunks = << <<"a", ".", "b", ".", "c">> >> /\ delimiters_ = {"."})
                    => out = << <<"a">>, <<"b">>, <<"c">> >>
              /\ (chunks = << <<"a", ".", ".", "b">> >> /\ delimiters_ = {"."})
                    => out = << <<"a">>, <<>>, <<"b">> >>

\* A finished traversal of two chunks, the first ending with a delimiter, that
\* yielded an empty token.
C3_Witness ==
    /\ mode = "split"
    /\ pc = "done"
    /\ Len(chunks) = 2
    /\ delimiters_ = {"."}
    /\ chunks[1] = <<"a", ".">>
    /\ out = << <<"a">>, <<>> >> \o Pieces(chunks[2])

(***************************************************************************)
(* Reference definitions for the Join claims, stated on the two input      *)
(* sequences as they were before the join ran.                             *)
(***************************************************************************)
\* The indices of the right elements whose key equals left element i's.
Matches(i) == {j \in 1..Len(right) : right[j].key = left0[i].key}

MatchCount(i) == Cardinality(Matches(i))

RowsWanted(i) == IF MatchCount(i) = 0 THEN 1 ELSE MatchCount(i)

RECURSIVE SumRowsWanted(_)
SumRowsWanted(n) == IF n = 0 THEN 0 ELSE RowsWanted(n) + SumRowsWanted(n - 1)

\* The indices of the result rows pushed for left element i.
RowsOf(i) == {r \in 1..Len(result) : result[r].src = i}

(***************************************************************************)
(* C4.  Join multiplicity law, both forms: the finished result has         *)
(* max(m_i, 1) rows for left element i, the rows of element i before those *)
(* of element i+1, and a row's joined value is absent exactly when m_i = 0.*)
(* An empty left gives an empty result, an empty right one all-absent row  *)
(* per left element.                                                       *)
(***************************************************************************)
C4_JoinMultiplicity ==
    jpc = "done" =>
        /\ Len(result) = SumRowsWanted(Len(left0))
        /\ \A i \in 1..Len(left0) : Cardinality(RowsOf(i)) = RowsWanted(i)
        /\ \A r \in 1..Len(result) : result[r].src \in 1..Len(left0)
        /\ \A r, t \in 1..Len(result) : r < t => result[r].src <= result[t].src
        /\ \A r \in 1..Len(result) :
              result[r].joined = <<>> <=> MatchCount(result[r].src) = 0
        /\ left0 = <<>> => result = <<>>
        /\ right = <<>> =>
              /\ Len(result) = Len(left0)
              /\ \A r \in 1..Len(result) : result[r].joined = <<>>

\* A finished selector-key join of two left elements: one with two right
\* matches and one with none.
C4_Witness ==
    /\ jpc = "done"
    /\ jform = "selector"
    /\ Len(left0) = 2
    /\ MatchCount(1) = 2
    /\ MatchCount(2) = 0
    /\ Len(result) = 3
    /\ result[3].joined = <<>>

(***************************************************************************)
(* C5.  Selector-key Join: the base of every emitted row equals the left   *)
(* element the row came from, as that element was before the join ran.     *)
(***************************************************************************)
C5_SelectorBaseIsLeftElement ==
    jform = "selector" =>
        \A r \in 1..Len(result) : result[r].base = left0[result[r].src]

(***************************************************************************)
(* C6.  Join, both forms: the rows of a left element with several right    *)
(* matches carry the matching right elements in the order in which these   *)
(* occur in the right sequence.                                            *)
(***************************************************************************)
C6_MatchesInRightOrder ==
    jpc = "done" =>
        \A i \in 1..Len(left0) :
            MatchCount(i) >= 1 =>
                LET rows == SelectSeq(result, LAMBDA row : row.src = i)
                    hits == SelectSeq(right, LAMBDA e : e.key = left0[i].key)
                IN  [k \in 1..Len(rows) |-> rows[k].joined]
                        = [k \in 1..Len(hits) |-> <<MappedValue(hits[k])>>]

(***************************************************************************)
(* Reference definitions for the AggregateByKey claim, stated on the input *)
(* sequence.                                                               *)
(***************************************************************************)
\* The distinct keys of a sequence of elements, in first-occurrence order.
RECURSIVE KeysInOrder(_)
KeysInOrder(elems) ==
    IF elems = <<>> THEN <<>>
    ELSE LET before == KeysInOrder(SubSeq(elems, 1, Len(elems) - 1))
             key == elems[Len(elems)].key
         IN  IF \E i \in 1..Len(before) : before[i] = key
             THEN before ELSE Append(before, key)

\* The initial value folded with the aggregator over a sequence of elements.
RECURSIVE FoldOver(_, _)
FoldOver(acc, elems) ==
    IF elems = <<>> THEN acc
    ELSE FoldOver(aggregator_(acc, Head(elems)), Tail(elems))

(***************************************************************************)
(* C7.  AggregateByKey grouping law, both forms: the finished result holds *)
(* the distinct keys of the input, each once, in first-occurrence order;   *)
(* each with the initial value folded over the input's elements of that    *)
(* key in input order, which for the counting aggregator is their number.  *)
(***************************************************************************)
C7_GroupingLaw ==
    apc = "done" =>
        /\ [i \in 1..Len(aresult) |-> aresult[i][1]] = KeysInOrder(ainput)
        /\ {aresult[i][1] : i \in 1..Len(aresult)}
              = {ainput[i].key : i \in 1..Len(ainput)}
        /\ \A i, j \in 1..Len(aresult) :
              aresult[i][1] = aresult[j][1] => i = j
        /\ \A i \in 1..Len(aresult) :
              LET mine == SelectSeq(ainput, LAMBDA e : e.key = aresult[i][1])
              IN  /\ aresult[i][2] = FoldOver(initial_value_, mine)
                  /\ aggKind = "count" => aresult[i][2] = Len(mine)

\* A finished selector-form aggregation of three elements, the first and the
\* last of one key, whose values were appended in input order.
C7_Witness ==
    /\ apc = "done"
    /\ aform = "selector"
    /\ aggKind = "concat"
    /\ ainput = <<[key |-> "k2", val |-> "v"], [key |-> "k1", val |-> "u"],
                  [key |-> "k2", val |-> "u"]>>
    /\ aresult = << <<"k2", <<"init", "v", "u">> >>, <<"k1", <<"init", "u">> >> >>

(***************************************************************************)
(* Reference definitions for the SplitExpected claims, stated on the input *)
(* sequence as it was before the adapter ran.                              *)
(***************************************************************************)
\* The fallible result input element i stands for.
Tagged(i) == IF sform = "existing" THEN sinput0[i] ELSE ParseDepartment(sinput0[i])

\* The payloads of the input's elements with the given tag, in input order.
PayloadsOf(tag) ==
    LET all == [i \in 1..Len(sinput0) |-> Tagged(i)]
        mine == SelectSeq(all, LAMBDA t : t.ok = tag)
    IN  [i \in 1..Len(mine) |-> mine[i].payload]

(***************************************************************************)
(* C8.  SplitExpected totality, both entry points: the returned pair holds *)
(* the error payloads first and the success payloads second, each in input *)
(* order; their sizes add up to the input's; all-success input gives no    *)
(* errors and all-error input no values.                                   *)
(***************************************************************************)
C8_Totality ==
    spc = "done" =>
        /\ Len(returned) = 2
        /\ Len(returned[1]) + Len(returned[2]) = Len(sinput0)
        /\ returned[1] = PayloadsOf(FALSE)
        /\ returned[2] = PayloadsOf(TRUE)
        /\ (\A i \in 1..Len(sinput0) : Tagged(i).ok) => returned[1] = <<>>
        /\ (\A i \in 1..Len(sinput0) : ~Tagged(i).ok) => returned[2] = <<>>

\* A returned pair for three already-fallible elements: success, error,
\* success (SplitAlreadyExpected of the tests).
C8_Witness ==
    /\ spc = "done"
    /\ sform = "existing"
    /\ sinput0 = <<[ok |-> TRUE, payload |-> 1],
                   [ok |-> FALSE, payload |-> "error1"],
                   [ok |-> TRUE, payload |-> 2]>>
    /\ returned = << <<"error1">>, <<1, 2>> >>

(***************************************************************************)
(* C9.  SplitExpected drains its upstream once, at composition time: no    *)
(* element is ever read or converted twice, and from the return on, across *)
(* any traversals of the two returned Flows, every element has been read   *)
(* exactly once and func_ applied exactly once per element in the          *)
(* functional form (never in the other).                                   *)
(***************************************************************************)
C9_DrainedOnce ==
    /\ \A i \in 1..Len(sinput0) :
          /\ reads[i] = (IF i <= si THEN 1 ELSE 0)
          /\ calls[i] = (IF sform = "apply" THEN reads[i] ELSE 0)
    /\ spc = "done" => si = Len(sinput0)
    /\ outReads > 0 => spc = "done"

\* Both returned Flows have been traversed after a functional-form run over
\* two elements.
C9_Witness ==
    /\ spc = "done"
    /\ sform = "apply"
    /\ Len(sinput0) = 2
    /\ outReads = 2
    /\ lastRead[1] = 2
    /\ \A i \in 1..2 : reads[i] = 1 /\ calls[i] = 1

(***************************************************************************)
(* C10.  Order preservation of Filter over a container: the traversal of   *)
(* Filter(p) yields the elements of the source that satisfy p, in source   *)
(* order and multiplicity: never anything else on the way, all of them at  *)
(* the end.                                                                *)
(***************************************************************************)
C10_FilterKeepsOrder ==
    mode = "filter" =>
        /\ IsPrefix(out, SelectSeq(chunks, predicate_))
        /\ pc = "done" =>
              /\ out = SelectSeq(chunks, predicate_)
              /\ \A w \in {chunks[i] : i \in 1..Len(chunks)}
                            \cup {out[i] : i \in 1..Len(out)} :
                    Cardinality({i \in 1..Len(out) : out[i] = w})
                        = IF predicate_(w)
                          THEN Cardinality({i \in 1..Len(chunks) : chunks[i] = w})
                          ELSE 0

\* A finished traversal that kept the first and the last of three elements,
\* equal to each other, and dropped the one between them.
C10_Witness ==
    /\ mode = "filter"
    /\ pc = "done"
    /\ predKind = "has_a"
    /\ chunks = << <<"a">>, <<"B">>, <<"a">> >>
    /\ out = << <<"a">>, <<"a">> >>

(***************************************************************************)
(* C11.  Transform composition: over a container, the cursor of            *)
(* Transform(g) over Transform(f) and the cursor of Transform(x => g(f(x)))*)
(* yield the same: element i of the source as g(f(element i)), one per     *)
(* source element, and a finished traversal has yielded as many elements   *)
(* as the source holds.                                                    *)
(***************************************************************************)
C11_TransformComposition ==
    adapters \in {<<"TransformF", "TransformG">>, <<"TransformGF">>} =>
        /\ \A c \in CursorNames :
              /\ Len(its[c].out) <= Len(chunks)
              /\ its[c].out = [i \in 1..Len(its[c].out) |->
                                  func_g(func_f(chunks[i]))]
              /\ its[c].st = "finished" => Len(its[c].out) = Len(chunks)
        /\ \A t \in 1..Len(yielded) :
              yielded[t] = [i \in 1..Len(chunks) |-> func_g(func_f(chunks[i]))]

\* A finished traversal of Transform(g) over Transform(f) over "B", "a".
C11_Witness ==
    /\ adapters = <<"TransformF", "TransformG">>
    /\ chunks = << <<"B">>, <<"a">> >>
    /\ its["c1"].st = "finished"
    /\ its["c1"].out = << <<"b", "B">>, <<"a", "B">> >>

(***************************************************************************)
(* Reference definitions for the end-to-end claim, stated on the files'    *)
(* text.                                                                   *)
(***************************************************************************)
\* The parse results of the tokens of all files, in token order.
ParsedTokens ==
    LET toks == AllPieces(AsDataFlowContents(files))
    IN  [i \in 1..Len(toks) |-> ParseDepartment(toks[i])]

\* The payloads of the parse results with the given tag, in token order.
ParsedPayloads(tag) ==
    LET mine == SelectSeq(ParsedTokens, LAMBDA t : t.ok = tag)
    IN  [i \in 1..Len(mine) |-> mine[i].payload]

(***************************************************************************)
(* C12.  End to end: files | Split | Transform(parse) | SplitExpected      *)
(* collects as errors the parse errors of the failing tokens and as values *)
(* the parse results of the passing tokens, each in token order: never     *)
(* anything else on the way, and the returned pair holds all of them.  The *)
(* file of SplitExpectedTest gives the errors "Department name contains    *)
(* space", "Department name is empty" and the values "good-department",    *)
(* "another-good-department".                                              *)
(***************************************************************************)
C12_EndToEnd ==
    epc # "idle" =>
        /\ IsPrefix(errors, ParsedPayloads(FALSE))
        /\ IsPrefix(values, ParsedPayloads(TRUE))
        /\ epc = "done" =>
              /\ returned = <<ParsedPayloads(FALSE), ParsedPayloads(TRUE)>>
              /\ (Len(files) = 1 /\ files[1].buf = ExampleFile) =>
                    returned = << <<"Department name contains space",
                                    "Department name is empty">>,
                                  <<GoodDepartment, AnotherGoodDepartment>> >>

(***************************************************************************)
(* Reference definition for the Write claim.                               *)
(***************************************************************************)
\* The textual forms of the elements, each followed by the separator.
RECURSIVE Separated(_)
Separated(elems) ==
    IF elems = <<>> THEN <<>>
    ELSE PutInt(<<>>, Head(elems)) \o <<delimiter_>> \o Separated(Tail(elems))

(***************************************************************************)
(* C13.  Write with separator c has written, when it returns, exactly the  *)
(* textual form of each element followed by c, in input order: as many     *)
(* separators as elements, the last character being a separator, nothing   *)
(* for an empty input; on the way it has written a prefix of that.         *)
(* [1,2,3,4,5] with '|' gives "1|2|3|4|5|".                                *)
(***************************************************************************)
C13_WriteSeparated ==
    wpc # "idle" =>
        /\ IsPrefix(os_, Separated(winput))
        /\ wpc = "done" =>
              /\ os_ = Separated(winput)
              /\ Cardinality({i \in 1..Len(os_) : os_[i] = delimiter_})
                    = Len(winput)
              /\ winput # <<>> => os_[Len(os_)] = delimiter_
              /\ winput = <<>> => os_ = <<>>
              /\ (winput = ExampleWrite /\ delimiter_ = "|") =>
                    os_ = <<"1", "|", "2", "|", "3", "|", "4", "|", "5", "|">>

\* Write has returned after a negative and a two-digit element.
C13_Witness ==
    /\ wpc = "done"
    /\ winput = <<-3, 12>>
    /\ delimiter_ = ","
    /\ os_ = <<"-", "3", ",", "1", "2", ",">>

(***************************************************************************)
(* C14.  Composition is pure construction for the lazy adapters: while the *)
(* pipe expression is being composed, and after it until the caller asks   *)
(* the Flow for a cursor, no source element has been read and no predicate *)
(* or function called.  The eager adapters have read their whole input     *)
(* when the pipe expression returns: AsVector every source element, Join   *)
(* both sides, AggregateByKey and SplitExpected every input element.       *)
(***************************************************************************)
C14_CompositionIsConstruction ==
    /\ (vpc = "compose" \/ (vpc = "traverse" /\ begun = <<>>)) =>
          (touched = {} /\ invoked = {})
    /\ vpc = "returned" => touched = 1..Len(chunks)
    /\ jpc = "done" => (ri = Len(right) /\ li = Len(left))
    /\ apc = "done" => (ai = Len(ainput) /\ passes >= 2)
    /\ spc = "done" =>
          (si = Len(sinput) /\ \A i \in 1..Len(sinput) : reads[i] >= 1)

\* A Flow of Filter and Transform over three elements is composed, and the
\* caller has not asked it for a cursor.
C14_Witness ==
    /\ vpc = "traverse"
    /\ begun = <<>>
    /\ flow = <<"Filter", "TransformF">>
    /\ Len(chunks) = 3
    /\ touched = {}

(***************************************************************************)
(* Reference definition for the claims on lazy views: what the Flow of k   *)
(* stages is to yield, stage by stage on whole sequences.                  *)
(***************************************************************************)
RECURSIVE Yield(_)
Yield(k) ==
    IF k = 0 THEN chunks
    ELSE IF flow[k] = "Split" THEN AllPieces(chunks)
    ELSE IF flow[k] \in TransformStages
    THEN [i \in 1..Len(Yield(k - 1)) |-> StageFunc(flow[k], Yield(k - 1)[i])]
    ELSE SelectSeq(Yield(k - 1), LAMBDA x : StagePred(flow[k], x))

(***************************************************************************)
(* C15.  Independent traversals of a lazy view over a container: every     *)
(* call of begin gives the same cursor state; all complete traversals      *)
(* yield the same sequence, the one the stages define; and what a cursor   *)
(* has yielded depends on its own advances only: of two cursors the one    *)
(* with fewer advances has yielded a prefix of what the other has, and two *)
(* cursors with equally many advances are in the same state.               *)
(***************************************************************************)
C15_IndependentTraversals ==
    vpc = "traverse" =>
        /\ \A i, j \in 1..Len(begun) : begun[i] = begun[j]
        /\ \A t \in 1..Len(yielded) : yielded[t] = Yield(Len(flow))
        /\ \A c, d \in CursorNames :
              (its[c].st # "none" /\ its[d].st # "none") =>
                  /\ its[c].n <= its[d].n => IsPrefix(its[c].out, its[d].out)
                  /\ (its[c].n = its[d].n /\ its[c].st = "ranged"
                         /\ its[d].st = "ranged") => its[c].it = its[d].it

\* A finished traversal of Filter | Transform and a second cursor of the same
\* Flow that has yielded its first element.
C15_Witness ==
    /\ flow = <<"Filter", "TransformF">>
    /\ predKind = "has_a"
    /\ chunks = << <<"a">>, <<"B">>, <<"a">> >>
    /\ its["c1"].st = "finished"
    /\ its["c1"].out = << <<"a">>, <<"a">> >>
    /\ its["c2"].st = "ranged"
    /\ its["c2"].out = << <<"a">> >>

(***************************************************************************)
(* Reference definitions for the claim on when lazy views read.            *)
(***************************************************************************)
\* The 0-based position in the source that a cursor of the Flow of k stages
\* stands on.
RECURSIVE SrcPos(_, _)
SrcPos(k, it) ==
    IF k = 0 THEN it
    ELSE IF flow[k] = "Split" THEN it.current_
    ELSE IF flow[k] \in TransformStages THEN SrcPos(k - 1, it.it_)
    ELSE SrcPos(k - 1, it.current_)

\* The step obtains a begin cursor, an end cursor.
BeginObtained == Len(begun') = Len(begun) + 1

EndObtained ==
    \E c \in CursorNames : its[c].st = "begun" /\ its'[c].st = "ranged"

\* The cursor the caller has just obtained from begin().
NewCursor == begun'[Len(begun')]

\* The step reads no source element beyond the one the cursor it worked on
\* stands on afterwards.
NoReadAhead ==
    \A c \in CursorNames :
        (its'[c].st # its[c].st \/ its'[c].n # its[c].n) =>
            (touched' \ touched) \subseteq
                1..(SrcPos(Len(flow), its'[c].it) + 1)

NothingRead == touched' = touched /\ invoked' = invoked

(***************************************************************************)
(* C16 as claimed.  A lazy view reads the source and calls its predicate   *)
(* or function only in a step in which the caller dereferences or advances *)
(* a cursor: obtaining a begin or end cursor reads nothing and calls       *)
(* nothing; and no step reads beyond the element its cursor stands on.     *)
(***************************************************************************)
C16_ReadsOnlyOnDerefOrAdvance ==
    [][/\ (BeginObtained \/ EndObtained) => NothingRead
       /\ NoReadAhead]_vars

(***************************************************************************)
(* C16.  A lazy view reads the source and calls its predicate or function  *)
(* only while one of its cursors is built, dereferenced or advanced.       *)
(* Composing reads and calls nothing; obtaining an end cursor reads no     *)
(* source element; obtaining a begin cursor reads and calls nothing in a   *)
(* Flow of Transform stages only, reads the source up to the cursor's      *)
(* position (the first element that passes, or all of them) in a Flow with *)
(* a Filter stage, and the first chunk in a Flow over Split.  No step      *)
(* reads beyond the element its cursor stands on.                          *)
(***************************************************************************)
C16_ReadsOnlyInCursorOperations ==
    [][/\ (vpc = "compose" /\ vpc' # "returned") => NothingRead
       /\ EndObtained => touched' = touched
       /\ BeginObtained =>
             IF flow[1] = "Split"
             THEN touched' = touched \cup
                                (IF chunks = <<>> THEN {} ELSE {1})
             ELSE IF \A k \in 1..Len(flow) : flow[k] \in TransformStages
             THEN NothingRead
             ELSE LET pos == SrcPos(Len(flow), NewCursor)
                  IN  /\ touched' = touched \cup
                            {i \in 1..Len(chunks) : i <= pos + 1}
                      /\ chunks # <<>> => invoked' # {}
       /\ NoReadAhead]_vars

\* The begin cursor of Filter("holds an a") over "B", "a", "." was obtained:
\* two elements have been read and the predicate called, before any
\* dereference or advance.
C16_Witness ==
    /\ flow = <<"Filter">>
    /\ predKind = "has_a"
    /\ chunks = << <<"B">>, <<"a">>, <<".">> >>
    /\ its["c1"].st = "begun"
    /\ its["c1"].it.current_ = 1
    /\ its["c2"].st = "none"
    /\ touched = {1, 2}
    /\ invoked = {1}

(***************************************************************************)
(* Reference definition for the DropNullopt claim.                         *)
(***************************************************************************)
\* The values held by the elements of the source that hold one, in order.
PresentValues ==
    LET present == SelectSeq(chunks, LAMBDA opt : opt # <<>>)
    IN  [i \in 1..Len(present) |-> present[i][1]]

(***************************************************************************)
(* C17.  DropNullopt over a container of optionals yields the values of    *)
(* the elements that hold one, in source order and multiplicity, and       *)
(* nothing for those that hold none: a prefix of them on the way, all of   *)
(* them in a finished traversal and in the vector AsVector returns; as     *)
(* many as there are elements holding a value.                             *)
(***************************************************************************)
C17_DropNullopt ==
    HasAdapter(adapters, "DropNullopt") =>
        /\ \A c \in CursorNames :
              /\ IsPrefix(its[c].out, PresentValues)
              /\ its[c].st = "finished" => its[c].out = PresentValues
        /\ \A t \in 1..Len(yielded) :
              /\ yielded[t] = PresentValues
              /\ Len(yielded[t])
                    = Cardinality({i \in 1..Len(chunks) : chunks[i] # <<>>})
              /\ (\A i \in 1..Len(chunks) : chunks[i] = <<>>) =>
                    yielded[t] = <<>>
        /\ vpc = "returned" => vector = PresentValues

\* A finished traversal of DropNullopt over a value, an absent element and
\* the same value again.
C17_Witness ==
    /\ adapters = <<"DropNullopt">>
    /\ chunks = << <<"a">>, <<>>, <<"a">> >>
    /\ its["c1"].st = "finished"
    /\ its["c1"].out = <<"a", "a">>
    /\ yielded = << <<"a", "a">> >>

(***************************************************************************)
(* Reference definitions for the claim on the passes of AggregateByKey.    *)
(***************************************************************************)
\* The keys of the first n elements of the input.
KeysOfFirst(n) == {ainput[i].key : i \in 1..n}

\* The aggregator has been called.
AggregatorCalled ==
    ainput # <<>> /\ ((apc = "fold" /\ ai > 0) \/ apc \in {"emit", "done"})

\* The accumulator of a key after the first n elements have been folded.
FoldedUpTo(key, n) ==
    FoldOver(initial_value_,
             SelectSeq(SubSeq(ainput, 1, n), LAMBDA e : e.key = key))

(***************************************************************************)
(* C18 as claimed.  In both forms AggregateByKey makes three passes over   *)
(* its input, and the aggregator is not called before every distinct key   *)
(* of the input has its accumulator.                                       *)
(***************************************************************************)
C18_ThreePasses ==
    /\ apc = "done" => passes = 3
    /\ AggregatorCalled => KeysOfFirst(Len(ainput)) \subseteq DOMAIN aggregated_map

(***************************************************************************)
(* C18.  The string form makes three passes, seed, fold, emit: during the  *)
(* first every accumulator holds the initial value, and the second starts  *)
(* with every distinct key seeded.  The selector form makes two: the first *)
(* seeds a key when it first occurs and folds the element in the same      *)
(* round, the second emits.  In both, after n rounds of folding the keys   *)
(* met hold the initial value folded over their elements among the first   *)
(* n, and nothing is emitted before the folding pass has finished.         *)
(***************************************************************************)
C18_Passes ==
    apc # "idle" =>
        /\ apc = "seed" =>
              /\ aform = "string" /\ passes = 1 /\ aresult = <<>>
              /\ DOMAIN aggregated_map = KeysOfFirst(ai)
              /\ \A k \in DOMAIN aggregated_map :
                    aggregated_map[k] = initial_value_
        /\ apc = "fold" =>
              /\ passes = (IF aform = "string" THEN 2 ELSE 1)
              /\ aresult = <<>>
              /\ DOMAIN aggregated_map =
                    (IF aform = "string" THEN KeysOfFirst(Len(ainput))
                     ELSE KeysOfFirst(ai))
              /\ \A k \in DOMAIN aggregated_map :
                    aggregated_map[k] = FoldedUpTo(k, ai)
        /\ apc \in {"emit", "done"} =>
              /\ passes = (IF aform = "string" THEN 3 ELSE 2)
              /\ DOMAIN aggregated_map = KeysOfFirst(Len(ainput))
              /\ \A r \in 1..Len(aresult) :
                    aresult[r][2] = FoldedUpTo(aresult[r][1], Len(ainput))

\* A finished selector-form aggregation over two keys: two passes.
C18_Witness ==
    /\ apc = "done"
    /\ aform = "selector"
    /\ passes = 2
    /\ Len(ainput) = 3
    /\ Len(aresult) = 2

(***************************************************************************)
(* Reference definitions for the claim on the Filter cursor.               *)
(***************************************************************************)
\* The cursor of stage k held inside the cursor it of stage j, j >= k.
RECURSIVE StageCursor(_, _, _)
StageCursor(j, k, it) ==
    IF j = k THEN it
    ELSE IF flow[j] \in TransformStages THEN StageCursor(j - 1, k, it.it_)
    ELSE StageCursor(j - 1, k, it.current_)

\* The positions of the upstream elements of stage k that satisfy its
\* predicate.
Satisfying(k) ==
    {i \in 1..Len(Yield(k - 1)) : StagePred(flow[k], Yield(k - 1)[i])}

\* The 0-based position of the n-th of them, end-of-upstream when there are
\* fewer.
NthSatisfying(k, n) ==
    LET S == Satisfying(k)
    IN  IF n > Cardinality(S) THEN Len(Yield(k - 1))
        ELSE (CHOOSE i \in S : Cardinality({j \in S : j < i}) = n - 1) - 1

\* The stages of the Flow that are Filters, over a container.
ContainerFilters ==
    {k \in 1..Len(flow) : flow[k] \in FilterStages /\ flow[1] # "Split"}

(***************************************************************************)
(* C19.  Filter cursor invariant over a container-backed upstream: a       *)
(* cursor the caller holds, after begin and after each advance, stands at  *)
(* end-of-upstream or on an element satisfying the predicate; after n      *)
(* advances it stands on the (n+1)-th satisfying element, or at the end    *)
(* when there are only n; and the elements dereferenced so far are the     *)
(* first n the Flow yields, each satisfying the predicate when the Filter  *)
(* is the last stage.                                                      *)
(***************************************************************************)
C19_FilterCursorInvariant ==
    \A c \in CursorNames : \A k \in ContainerFilters :
        its[c].st # "none" =>
            LET fc == StageCursor(Len(flow), k, its[c].it)
            IN  /\ \/ ~IterNeq(k - 1, fc.current_, fc.end_)
                   \/ StagePred(flow[k],
                                IterDeref(k - 1, fc.current_, Log).val)
                /\ SrcPos(k - 1, fc.current_)
                      = NthSatisfying(k, its[c].n + 1)
                /\ its[c].out = SubSeq(Yield(Len(flow)), 1, its[c].n)
                /\ k = Len(flow) =>
                      \A i \in 1..Len(its[c].out) :
                          StagePred(flow[k], its[c].out[i])

\* A Filter cursor that was advanced once and skipped an element that does
\* not satisfy the predicate on the way.
C19_Witness ==
    /\ flow = <<"Filter">>
    /\ predKind = "has_a"
    /\ chunks = << <<"a">>, <<"B">>, <<"a">> >>
    /\ its["c1"].st = "ranged"
    /\ its["c1"].n = 1
    /\ its["c1"].it.current_ = 2
    /\ its["c1"].out = << <<"a">> >>

(***************************************************************************)
(* C20.  An eager adapter leaves the elements of the Flow it was run on    *)
(* as they were: after Join (either form) the left elements, and after     *)
(* SplitExpected on already-fallible elements the input elements, are      *)
(* those of before the run, so that a traversal of the input yields the    *)
(* same sequence as before.                                                *)
(***************************************************************************)
C20_InputUnchanged ==
    /\ jpc = "done" => left = left0
    /\ spc = "done" => sinput = sinput0

(***************************************************************************)
(* Reference definition for the claim on SplitExpected(f) over fallible    *)
(* results.                                                                *)
(***************************************************************************)
\* The payloads of those of the first n input elements that carry the given
\* tag themselves, in input order: what SplitExpected() routes where.
RoutedByOwnTag(n, tag) ==
    LET mine == SelectSeq(SubSeq(sinput0, 1, n), LAMBDA e : e.ok = tag)
    IN  [i \in 1..Len(mine) |-> mine[i].payload]

(***************************************************************************)
(* C21.  SplitExpected(f) on elements that are fallible results already    *)
(* never calls f, and routes each element by its own tag: whatever the     *)
(* function, errors and values hold, and the returned pair is, what        *)
(* SplitExpected() without a function gives.  f is called only on elements *)
(* that are not fallible results, and there once for each element taken.   *)
(***************************************************************************)
C21_FunctionUnusedOnExpected ==
    spc # "idle" =>
        /\ IsExpectedV =>
              /\ \A i \in 1..Len(calls) : calls[i] = 0
              /\ errors = RoutedByOwnTag(si, FALSE)
              /\ values = RoutedByOwnTag(si, TRUE)
              /\ spc = "done" =>
                    returned = <<RoutedByOwnTag(Len(sinput0), FALSE),
                                 RoutedByOwnTag(Len(sinput0), TRUE)>>
        /\ (\E i \in 1..Len(calls) : calls[i] > 0) => sform = "apply"
        /\ sform = "apply" => \A i \in 1..si : calls[i] = 1

\* A returned pair of SplitExpected(RejectAll) over success, error, success:
\* routed by the elements' tags, the function not called.
C21_Witness ==
    /\ spc = "done"
    /\ sform = "existing"
    /\ Func = "RejectAll"
    /\ sinput0 = <<[ok |-> TRUE, payload |-> 1],
                   [ok |-> FALSE, payload |-> "error1"],
                   [ok |-> TRUE, payload |-> 2]>>
    /\ returned = << <<"error1">>, <<1, 2>> >>
    /\ calls = <<0, 0, 0>>

=============================================================================
